---- MODULE Spec2Model ----
(***************************************************************************)
(* A model of the CHIP-8 interpreter core, src/cpu/mod.rs.                 *)
(*                                                                         *)
(* The state is the Cpu struct: the register file, the program counter,    *)
(* the index register, the stack pointer, the memory image, the display    *)
(* and the delay timer.  An action models one call of Cpu::execute that    *)
(* takes one arm of the match, the fetch included; one more action is the  *)
(* host's clock tick that decays the timer.  The modules memory, opcode,   *)
(* display and timer are not part of the sources at hand; their operators  *)
(* are written from sections 3, 4.1, 4.2, 4.4 and 4.5 of the               *)
(* specification and the classic CHIP-8 encoding it refers to.             *)
(***************************************************************************)
EXTENDS Integers, Sequences, FiniteSets, TLC

(***************************************************************************)
(* Bounds of the exploration.                                              *)
(***************************************************************************)
\* registers 0..MaxReg and register 15 (VF) are used as operands
MaxReg == 1
\* operand bytes 0..MaxVal, 127, 128 and 255-MaxVal..255
MaxVal == 1
\* steps executed in one run
MaxSteps == 20
\* call nesting depth of the generated call programs
MaxDepth == 2
\* clock ticks the host delivers in one run
MaxTicks == 2

(***************************************************************************)
(* Memory map (module memory).                                             *)
(***************************************************************************)
MEMORY_SIZE == 4096
PROGRAM_CODE_BASE == 512
STACK_BASE == 4096
\* the stack region holds 16 return addresses below STACK_BASE
STACK_SIZE == 32
WORD_SIZE == 2
FONT_SIZE == 80
\* bytes of one glyph of the font
GLYPH_SIZE == 5

Byte == 0..255
Addresses == 0..(MEMORY_SIZE - 1)

\* the built-in 8x5 glyphs of the hex digits 0..F
FontTable ==
  << 240, 144, 144, 144, 240,    32,  96,  32,  32, 112,
     240,  16, 240, 128, 240,   240,  16, 240,  16, 240,
     144, 144, 240,  16,  16,   240, 128, 240,  16, 240,
     240, 128, 240, 144, 240,   240,  16,  32,  64,  64,
     240, 144, 240, 144, 240,   240, 144, 240,  16, 240,
     240, 144, 240, 144, 144,   224, 144, 224, 144, 224,
     240, 128, 128, 128, 240,   224, 144, 144, 144, 224,
     240, 128, 240, 128, 240,   240, 128, 240, 128, 128 >>

\* Memory::new: font in the low region, program at the program base, zeros
\* elsewhere.  A memory image is kept as the map of the addresses that were
\* initialised or written since; every other address holds its zero fill.
MemoryNew(rom) ==
  [a \in (0..(FONT_SIZE - 1))
           \cup (PROGRAM_CODE_BASE..(PROGRAM_CODE_BASE + Len(rom) - 1)) |->
     IF a < FONT_SIZE THEN FontTable[a + 1] ELSE rom[a - PROGRAM_CODE_BASE + 1]]

\* the byte of the image at address a
ByteAt(mem, a) == IF a \in DOMAIN mem THEN mem[a] ELSE 0

\* a run of len bytes at addr lies inside the memory (the slice bounds check)
InBounds(addr, len) == addr >= 0 /\ addr + len <= MEMORY_SIZE

\* Memory::read_u16_at: the big-endian word at addr, addr+1
read_u16_at(mem, addr) == ByteAt(mem, addr) * 256 + ByteAt(mem, addr + 1)

\* Memory::write_at: the bytes src[0..len-1] copied to addr..addr+len-1
write_at(mem, src, len, addr) ==
  [a \in DOMAIN mem \cup (addr..(addr + len - 1)) |->
     IF a >= addr /\ a < addr + len THEN src[a - addr] ELSE mem[a]]

\* Memory::write_u16_at: value written big-endian at addr, addr+1
write_u16_at(mem, value, addr) ==
  write_at(mem, [k \in 0..1 |-> IF k = 0 THEN value \div 256 ELSE value % 256],
           WORD_SIZE, addr)

\* Memory::read_at: the len bytes starting at addr, as a function on 0..len-1
read_at(mem, len, addr) == [k \in 0..(len - 1) |-> ByteAt(mem, addr + k)]

(***************************************************************************)
(* Opcode fields and the dispatch table (module opcode).                   *)
(***************************************************************************)
Nib0(w) == w \div 4096
Nib1(w) == (w \div 256) % 16
Nib2(w) == (w \div 16) % 16
Nib3(w) == w % 16

reg1(w) == Nib1(w)
reg2(w) == Nib2(w)
byte(w) == w % 256
tribble(w) == w % 4096
nibble(w) == Nib3(w)

\* the instruction the nibble tuple of w matches, "" when it matches none
Decode(w) ==
  CASE Nib0(w) = 1 -> "JMP addr"
    [] Nib0(w) = 11 -> "JMP V0, addr"
    [] Nib0(w) = 2 -> "CALL addr"
    [] w = 238 -> "RET"
    [] Nib0(w) = 6 -> "MOV Vx, byte"
    [] Nib0(w) = 8 /\ Nib3(w) = 0 -> "MOV Vx, Vy"
    [] Nib0(w) = 10 -> "MOV I, addr"
    [] Nib0(w) = 15 /\ byte(w) = 21 -> "MOV DT, Vx"
    [] Nib0(w) = 15 /\ byte(w) = 7 -> "MOV Vx, DT"
    [] Nib0(w) = 7 -> "ADD Vx, byte"
    [] Nib0(w) = 8 /\ Nib3(w) = 4 -> "ADD Vx, Vy"
    [] Nib0(w) = 15 /\ byte(w) = 30 -> "ADD I, Vx"
    [] Nib0(w) = 8 /\ Nib3(w) = 5 -> "SUB Vx, Vy"
    [] Nib0(w) = 8 /\ Nib3(w) = 7 -> "RSUB Vx, Vy"
    [] Nib0(w) = 8 /\ Nib3(w) = 1 -> "OR Vx, Vy"
    [] Nib0(w) = 8 /\ Nib3(w) = 2 -> "AND Vx, Vy"
    [] Nib0(w) = 8 /\ Nib3(w) = 3 -> "XOR Vx, Vy"
    [] Nib0(w) = 8 /\ Nib3(w) = 6 -> "SHR Vx"
    [] Nib0(w) = 8 /\ Nib3(w) = 14 -> "SHL Vx"
    [] Nib0(w) = 12 -> "RND Vx, tribble"
    [] Nib0(w) = 3 -> "SKE Vx, byte"
    [] Nib0(w) = 5 /\ Nib3(w) = 0 -> "SKE Vx, Vy"
    [] Nib0(w) = 4 -> "SKNE Vx, byte"
    [] Nib0(w) = 9 /\ Nib3(w) = 0 -> "SKNE Vx, Vy"
    [] w = 224 -> "CLS"
    [] Nib0(w) = 13 -> "DRW Vx, Vy, nibble"
    [] Nib0(w) = 15 /\ byte(w) = 51 -> "BCD Vx"
    [] Nib0(w) = 15 /\ byte(w) = 101 -> "LD Vx, [I]"
    [] Nib0(w) = 15 /\ byte(w) = 85 -> "STR [I], Vx"
    [] Nib0(w) = 15 /\ byte(w) = 41 -> "FONT Vx"
    [] OTHER -> ""

(***************************************************************************)
(* 8-bit arithmetic (u8::wrapping_add, u8::wrapping_sub, >>=, <<=).        *)
(***************************************************************************)
wrapping_add(a, b) == (a + b) % 256
wrapping_sub(a, b) == (a - b + 256) % 256
shr1(a) == a \div 2
shl1(a) == (a * 2) % 256

(***************************************************************************)
(* Bits of a byte (bitwise operators of u8).                               *)
(***************************************************************************)
Pow2 == <<1, 2, 4, 8, 16, 32, 64, 128>>

\* bit k of byte a, bit 0 the lowest
Bit(a, k) == (a \div Pow2[k + 1]) % 2

\* the byte whose bit k is f[k]
FromBits(f) ==
  f[0] + 2 * f[1] + 4 * f[2] + 8 * f[3] + 16 * f[4] + 32 * f[5] + 64 * f[6] + 128 * f[7]

bitor(a, b) == FromBits([k \in 0..7 |-> IF Bit(a, k) + Bit(b, k) > 0 THEN 1 ELSE 0])
bitand(a, b) == FromBits([k \in 0..7 |-> Bit(a, k) * Bit(b, k)])
bitxor(a, b) == FromBits([k \in 0..7 |-> (Bit(a, k) + Bit(b, k)) % 2])

(***************************************************************************)
(* Display (module display): a 64x32 grid of pixels, kept as the set of    *)
(* the lit ones.                                                           *)
(***************************************************************************)
DISPLAY_WIDTH == 64
DISPLAY_HEIGHT == 32

\* Display::new: every pixel unlit
DisplayNew == {}

\* Display::clear
DisplayClear(d) == {}

\* the pixels a sprite (rows bytes, row 0 first, bit 7 the leftmost column)
\* covers with a lit bit when drawn at (x, y), wrapping at the edges
SpritePixels(sprite, rows, x, y) ==
  { <<(x + col) % DISPLAY_WIDTH, (y + row) % DISPLAY_HEIGHT>> :
      <<row, col>> \in { rc \in (0..(rows - 1)) \X (0..7) :
                           Bit(sprite[rc[1]], 7 - rc[2]) = 1 } }

\* Display::draw, the grid after the blit: every covered pixel is flipped
DisplayDraw(d, sprite, rows, x, y) ==
  (d \ SpritePixels(sprite, rows, x, y)) \cup (SpritePixels(sprite, rows, x, y) \ d)

\* Display::draw, the value returned: a pixel that was lit was turned off
DisplayCollision(d, sprite, rows, x, y) ==
  SpritePixels(sprite, rows, x, y) \cap d # {}

(***************************************************************************)
(* Timer (module timer): a counter the Cpu sets and reads and the host     *)
(* decrements, floored at zero.                                            *)
(***************************************************************************)
TimerNew == 0
TimerSet(t, value) == value
TimerGet(t) == t
TimerTick(t) == IF t > 0 THEN t - 1 ELSE 0

(***************************************************************************)
(* The Cpu.  status is "running" until a step panics (a failed bounds or   *)
(* overflow check aborts the process) or exits on an unsupported opcode;   *)
(* report holds what the unsupported-opcode arm prints.  trace records,    *)
(* for every executed step, the state it started from and the memory       *)
(* bytes it changed: the properties relate a step's outcome to it.         *)
(* display is the set of lit pixels <<column, row>>.  overflow_checks is   *)
(* the build profile: whether integer overflow panics or wraps.  ticks     *)
(* counts the clock ticks the host has delivered.                          *)
(***************************************************************************)
VARIABLES gpr, program_counter, index, stack_pointer, memory, display,
          delay_timer, status, report, trace, overflow_checks, ticks

vars ==
  <<gpr, program_counter, index, stack_pointer, memory, display, delay_timer,
    status, report, trace, overflow_checks, ticks>>

Registers == 0..15

\* the Cpu value the methods below transform
Self ==
  [gpr |-> gpr, program_counter |-> program_counter, index |-> index,
   stack_pointer |-> stack_pointer, memory |-> memory, display |-> display,
   delay_timer |-> delay_timer, status |-> status, report |-> report]

\* a failed check unwinds the process: nothing after it runs
Panic(c) == [c EXCEPT !.status = "panicked"]

\* Cpu::new
New(rom) ==
  [gpr |-> [r \in Registers |-> 0],
   program_counter |-> PROGRAM_CODE_BASE,
   index |-> 0,
   stack_pointer |-> STACK_BASE,
   memory |-> MemoryNew(rom),
   display |-> DisplayNew,
   delay_timer |-> TimerNew,
   status |-> "running",
   report |-> <<>>]

\* Cpu::fetch_instruction: the word read at the program counter
FetchedOpcode(c) == read_u16_at(c.memory, c.program_counter)

\* fetch_instruction as it would be if it advanced by one byte
fetch_instruction_by_byte(c) == [c EXCEPT !.program_counter = @ + 1]

\* Cpu::fetch_instruction: the program counter moves past the word
fetch_instruction(c) == [c EXCEPT !.program_counter = @ + WORD_SIZE]

\* Cpu::push: the stack pointer moves down a word, then the value is written there
push(c, value) ==
  IF c.stack_pointer < WORD_SIZE \/ ~InBounds(c.stack_pointer - WORD_SIZE, WORD_SIZE)
  THEN Panic(c)
  ELSE [c EXCEPT !.stack_pointer = @ - WORD_SIZE,
                 !.memory = write_u16_at(@, value, c.stack_pointer - WORD_SIZE)]

\* Cpu::pop: the value popped, read at the stack pointer
PoppedValue(c) == read_u16_at(c.memory, c.stack_pointer)

\* pop as it would be if it left the stack pointer where it was
pop_keeps_pointer(c) ==
  IF ~InBounds(c.stack_pointer, WORD_SIZE)
  THEN Panic(c)
  ELSE c

\* Cpu::pop: the word at the stack pointer is read, then the pointer moves up a word
pop(c) ==
  IF ~InBounds(c.stack_pointer, WORD_SIZE)
  THEN Panic(c)
  ELSE [c EXCEPT !.stack_pointer = @ + WORD_SIZE]

\* call as it would be if it pushed the address of the CALL itself
call_pushes_own_address(c, addr) ==
  LET pushed == push(c, (c.program_counter - WORD_SIZE) % 65536)
  IN  IF pushed.status # "running" THEN pushed
      ELSE [pushed EXCEPT !.program_counter = addr]

\* Cpu::call
call(c, addr) ==
  LET pushed == push(c, c.program_counter % 65536)
  IN  IF pushed.status # "running" THEN pushed
      ELSE [pushed EXCEPT !.program_counter = addr]

\* Cpu::ret
ret(c) ==
  LET popped == pop(c)
  IN  IF popped.status # "running" THEN popped
      ELSE [popped EXCEPT !.program_counter = PoppedValue(c)]

\* load_regs as it would be if the range ended before register reg_count
load_regs_exclusive(c, reg_count) ==
  IF ~InBounds(c.index, reg_count)
  THEN Panic(c)
  ELSE [c EXCEPT !.gpr = [r \in Registers |->
                            IF r < reg_count
                            THEN read_at(c.memory, reg_count, c.index)[r]
                            ELSE @[r]]]

\* Cpu::load_regs: registers 0..reg_count are read from memory at index
load_regs(c, reg_count) ==
  IF ~InBounds(c.index, reg_count + 1)
  THEN Panic(c)
  ELSE [c EXCEPT !.gpr = [r \in Registers |->
                            IF r < reg_count + 1
                            THEN read_at(c.memory, reg_count + 1, c.index)[r]
                            ELSE @[r]]]

\* Cpu::store_regs: registers 0..reg_count are written to memory at index
store_regs(c, reg_count) ==
  IF ~InBounds(c.index, reg_count + 1)
  THEN Panic(c)
  ELSE [c EXCEPT !.memory = write_at(@, c.gpr, reg_count + 1, c.index)]

\* draw as it would be if the collision flag were dropped
draw_drops_collision(c, x, y, z) ==
  IF z > 15 \/ ~InBounds(c.index, z)
  THEN Panic(c)
  ELSE LET sprite == read_at(c.memory, z, c.index)
       IN  [c EXCEPT !.display = DisplayDraw(@, sprite, z, x, y)]

\* Cpu::draw: the z bytes at index are the sprite, drawn at (x, y); VF gets
\* the collision flag
draw(c, x, y, z) ==
  IF z > 15 \/ ~InBounds(c.index, z)
  THEN Panic(c)
  ELSE LET sprite == read_at(c.memory, z, c.index)
       IN  [c EXCEPT !.display = DisplayDraw(@, sprite, z, x, y),
                     !.gpr[15] = IF DisplayCollision(c.display, sprite, z, x, y)
                                 THEN 1 ELSE 0]

\* skip_if as it would be with the test inverted
skip_if_not(c, predicate) ==
  IF predicate THEN c ELSE [c EXCEPT !.program_counter = @ + WORD_SIZE]

\* Cpu::skip_if
skip_if(c, predicate) ==
  IF predicate THEN [c EXCEPT !.program_counter = @ + WORD_SIZE] ELSE c

\* bcd as it would be with the digits in the order ones, tens, hundreds
bcd_ones_first(c, number) ==
  LET digits == [k \in 0..2 |->
                   IF k = 0 THEN number % 10
                   ELSE IF k = 1 THEN (number \div 10) % 10
                   ELSE (number \div 100) % 10]
  IN  IF ~InBounds(c.index, 3)
      THEN Panic(c)
      ELSE [c EXCEPT !.memory = write_at(@, digits, 3, c.index)]

\* Cpu::bcd: the hundreds, tens and ones digits of number are written at index
bcd(c, number) ==
  LET digits == [k \in 0..2 |->
                   IF k = 0 THEN (number \div 100) % 10
                   ELSE IF k = 1 THEN (number \div 10) % 10
                   ELSE number % 10]
  IN  IF ~InBounds(c.index, 3)
      THEN Panic(c)
      ELSE [c EXCEPT !.memory = write_at(@, digits, 3, c.index)]

(***************************************************************************)
(* The arms of the match in Cpu::execute.  c is the Cpu after the fetch.   *)
(***************************************************************************)
\* JMP V0, addr
jmp_v0_addr(c, opcode) ==
  [c EXCEPT !.program_counter = (tribble(opcode) + c.gpr[0]) % 65536]

\* RET
ret_arm(c, opcode) == ret(c)

\* MOV Vx, Vy
mov_vx_vy(c, opcode) == [c EXCEPT !.gpr[reg1(opcode)] = c.gpr[reg2(opcode)]]

\* MOV DT, Vx
mov_dt_vx(c, opcode) ==
  [c EXCEPT !.delay_timer = TimerSet(@, c.gpr[reg1(opcode)])]

\* MOV Vx, DT
mov_vx_dt(c, opcode) ==
  [c EXCEPT !.gpr[reg1(opcode)] = TimerGet(c.delay_timer) % 256]

\* OR Vx, Vy
or_vx_vy(c, opcode) ==
  [c EXCEPT !.gpr[reg1(opcode)] = bitor(@, c.gpr[reg2(opcode)])]

\* AND Vx, Vy
and_vx_vy(c, opcode) ==
  [c EXCEPT !.gpr[reg1(opcode)] = bitand(@, c.gpr[reg2(opcode)])]

\* XOR Vx, Vy
xor_vx_vy(c, opcode) ==
  [c EXCEPT !.gpr[reg1(opcode)] = bitxor(@, c.gpr[reg2(opcode)])]

\* SKE Vx, byte
ske_vx_byte(c, opcode) == skip_if(c, c.gpr[reg1(opcode)] = byte(opcode))

\* SKE Vx, Vy
ske_vx_vy(c, opcode) == skip_if(c, c.gpr[reg1(opcode)] = c.gpr[reg2(opcode)])

\* SKNE Vx, byte
skne_vx_byte(c, opcode) == skip_if(c, c.gpr[reg1(opcode)] # byte(opcode))

\* SKNE Vx, Vy
skne_vx_vy(c, opcode) == skip_if(c, c.gpr[reg1(opcode)] # c.gpr[reg2(opcode)])

\* CLS
cls(c, opcode) == [c EXCEPT !.display = DisplayClear(@)]

\* DRW Vx, Vy, nibble
drw_vx_vy_nibble(c, opcode) ==
  draw(c, c.gpr[reg1(opcode)], c.gpr[reg2(opcode)], nibble(opcode))

\* BCD Vx
bcd_vx(c, opcode) == bcd(c, c.gpr[reg1(opcode)])

\* FONT Vx: Vx * 5 is a u8 product.  When it exceeds 255 the build with
\* overflow checks panics and the build without keeps its low 8 bits.
font_vx(c, opcode, checks) ==
  LET product == c.gpr[reg1(opcode)] * GLYPH_SIZE
  IN  IF product > 255 /\ checks
      THEN Panic(c)
      ELSE [c EXCEPT !.index = product % 256]

\* JMP addr
jmp_addr(c, opcode) == [c EXCEPT !.program_counter = tribble(opcode)]

\* CALL addr
call_addr(c, opcode) == call(c, tribble(opcode))

\* MOV Vx, byte as it would be if the register came from the third nibble
mov_vx_byte_to_reg2(c, opcode) == [c EXCEPT !.gpr[reg2(opcode)] = byte(opcode)]

\* MOV Vx, byte
mov_vx_byte(c, opcode) == [c EXCEPT !.gpr[reg1(opcode)] = byte(opcode)]

\* MOV I, addr
mov_i_addr(c, opcode) == [c EXCEPT !.index = tribble(opcode)]

\* ADD Vx, byte: the wrapped sum is computed and dropped, no register is assigned
add_vx_byte(c, opcode) ==
  LET sum == wrapping_add(c.gpr[reg1(opcode)], byte(opcode))
  IN  c

\* ADD Vx, Vy: the wrapped sum is computed and dropped
add_vx_vy(c, opcode) ==
  LET sum == wrapping_add(c.gpr[reg1(opcode)], c.gpr[reg2(opcode)])
  IN  c

\* ADD I, Vx: the wrapped sum is computed and dropped
add_i_vx(c, opcode) ==
  LET sum == c.index + c.gpr[reg1(opcode)]
  IN  c

\* SUB Vx, Vy: the wrapped difference is computed and dropped
sub_vx_vy(c, opcode) ==
  LET difference == wrapping_sub(c.gpr[reg1(opcode)], c.gpr[reg2(opcode)])
  IN  c

\* RSUB as it would be with the operands in the order of SUB
rsub_vx_vy_unreversed(c, opcode) ==
  [c EXCEPT !.gpr[reg1(opcode)] =
              wrapping_sub(c.gpr[reg1(opcode)], c.gpr[reg2(opcode)])]

\* RSUB Vx, Vy
rsub_vx_vy(c, opcode) ==
  [c EXCEPT !.gpr[reg1(opcode)] =
              wrapping_sub(c.gpr[reg2(opcode)], c.gpr[reg1(opcode)])]

\* SHR Vx: bit 0 is read and dropped, then the register is shifted
shr_vx(c, opcode) ==
  LET bit == c.gpr[reg1(opcode)] % 2
  IN  [c EXCEPT !.gpr[reg1(opcode)] = shr1(@)]

\* SHL Vx: bit 7 is read and dropped, then the register is shifted
shl_vx(c, opcode) ==
  LET bit == c.gpr[reg1(opcode)] \div 128
  IN  [c EXCEPT !.gpr[reg1(opcode)] = shl1(@)]

\* the values gen_range(0, high) draws from; none when the range is empty
gen_range(high) == 0..(high - 1)

\* RND Vx, tribble: byte + 1 is a u8 sum.  For byte = 255 the checked build
\* panics on the overflow and the unchecked build wraps it to 0, an empty
\* range on which gen_range panics: the step fails in either build.
rnd_vx(c, opcode, drawn) ==
  IF byte(opcode) + 1 > 255
  THEN Panic(c)
  ELSE [c EXCEPT !.gpr[reg1(opcode)] = drawn]

\* the draws the random source can make for RND Vx with this opcode
RndDraws(opcode) ==
  IF byte(opcode) + 1 > 255 THEN {0} ELSE gen_range(byte(opcode) + 1)

\* LD Vx, [I]
ld_vx_i(c, opcode) == load_regs(c, reg1(opcode))

\* STR [I], Vx
str_i_vx(c, opcode) == store_regs(c, reg1(opcode))

\* the default arm as it would be if it printed the program counter as it
\* is after the fetch
unsupported_reports_next_address(c, opcode) ==
  [c EXCEPT !.status = "exited",
            !.report = <<opcode, c.program_counter>>]

\* the default arm: the opcode and its address are printed and the process exits
unsupported(c, opcode) ==
  [c EXCEPT !.status = "exited",
            !.report = <<opcode, c.program_counter - 2>>]

(***************************************************************************)
(* Programs the Cpu is constructed from.  A program is a sequence of       *)
(* instruction words, loaded big-endian at the program base.               *)
(***************************************************************************)
Regs == (0..MaxReg) \cup {15}
Vals == (0..MaxVal) \cup {127, 128} \cup ((255 - MaxVal)..255)
\* the values registers are overwritten with after a store
OverVals == {0, 170}
\* index values: free memory, the last 16 bytes, the last byte
IndexAddrs == {768, 4080, 4095}

WJmp(addr) == 4096 + addr
WCall(addr) == 2 * 4096 + addr
WRet == 238
WMovByte(x, kk) == 6 * 4096 + x * 256 + kk
WAddByte(x, kk) == 7 * 4096 + x * 256 + kk
WAlu(x, y, n) == 8 * 4096 + x * 256 + y * 16 + n
WMovI(addr) == 10 * 4096 + addr
WRnd(x, kk) == 12 * 4096 + x * 256 + kk
WAddI(x) == 15 * 4096 + x * 256 + 30
WStr(x) == 15 * 4096 + x * 256 + 85
WLd(x) == 15 * 4096 + x * 256 + 101
WJmpV0(addr) == 11 * 4096 + addr
WSkeByte(x, kk) == 3 * 4096 + x * 256 + kk
WSkneByte(x, kk) == 4 * 4096 + x * 256 + kk
WSkeReg(x, y) == 5 * 4096 + x * 256 + y * 16
WSkneReg(x, y) == 9 * 4096 + x * 256 + y * 16
WCls == 224
WDrw(x, y, n) == 13 * 4096 + x * 256 + y * 16 + n
WMovDt(x) == 15 * 4096 + x * 256 + 21
WMovFromDt(x) == 15 * 4096 + x * 256 + 7
WBcd(x) == 15 * 4096 + x * 256 + 51
WFont(x) == 15 * 4096 + x * 256 + 41

\* the address of the k-th word (from 0) of the program
WordAddr(k) == PROGRAM_CODE_BASE + WORD_SIZE * k

\* the bytes of a sequence of words, high byte first
RomBytes(words) ==
  [i \in 1..(2 * Len(words)) |->
     IF i % 2 = 1 THEN words[(i + 1) \div 2] \div 256 ELSE words[i \div 2] % 256]

\* two registers are set, then one arithmetic instruction runs on them
AluPrograms ==
  UNION { { <<WMovByte(x, a), WMovByte(y, b), w>> :
              w \in { WAlu(x, y, 4), WAlu(x, y, 5), WAlu(x, y, 7),
                      WAlu(x, y, 6), WAlu(x, y, 14), WAddByte(x, b) } } :
          x \in Regs, y \in Regs, a \in Vals, b \in Vals }

\* the index and a register are set, then the register is added to the index
IndexPrograms ==
  { <<WMovI(addr), WMovByte(x, a), WAddI(x)>> :
      addr \in IndexAddrs, x \in Regs, a \in Vals }

\* one random draw
RndPrograms == { <<WRnd(x, kk)>> : x \in Regs, kk \in Vals }

\* jumps: to itself, and to the last byte of the memory
JmpPrograms == { <<WJmp(WordAddr(0))>>, <<WJmp(MEMORY_SIZE - 1)>>, <<WRet>> }

\* what a subroutine does before it returns: nothing, a register move, a
\* store to free memory, or a store over the top word of the stack region
Bodies ==
  { <<>>, <<WMovI(768), WStr(1)>> }
    \cup { <<WMovByte(1, a)>> : a \in Vals }
    \cup { <<WMovI(STACK_BASE - WORD_SIZE), WMovByte(0, 2), WMovByte(1, a), WStr(1)>> :
             a \in {0, 2} }

\* calls nested d deep: word 0 calls level 1, word 1 is left unsupported;
\* level k (words 2k, 2k+1) calls level k+1 and returns; the last level
\* runs the body and returns
CallProgram(d, body) ==
  <<WCall(WordAddr(2)), 0>>
    \o [i \in 1..(2 * (d - 1)) |->
          IF i % 2 = 1 THEN WCall(WordAddr(i + 3)) ELSE WRet]
    \o body \o <<WRet>>

CallPrograms == { CallProgram(d, body) : d \in 1..MaxDepth, body \in Bodies }

\* registers are stored, overwritten, and loaded back; in between the index
\* may move or the stored bytes may be written again
StrLdPrograms ==
  UNION { { <<WMovByte(0, a), WMovByte(r, b), WMovI(addr), WStr(x),
              WMovByte(0, c), WMovByte(r, c)>> \o mid \o <<WLd(x)>> :
              mid \in { <<>>, <<WMovI((addr + 1) % MEMORY_SIZE)>>, <<WStr(0)>> } } :
          r \in Regs, x \in Regs, a \in Vals, b \in Vals,
          c \in OverVals, addr \in IndexAddrs }

\* two registers are set, then one move or bitwise instruction runs on them
LogicPrograms ==
  UNION { { <<WMovByte(x, a), WMovByte(y, b), w>> :
              w \in { WAlu(x, y, 0), WAlu(x, y, 1), WAlu(x, y, 2), WAlu(x, y, 3) } } :
          x \in Regs, y \in Regs, a \in Vals, b \in Vals }

\* two registers are set, then one skip instruction compares them
SkipPrograms ==
  UNION { { <<WMovByte(x, a), WMovByte(y, b), w>> :
              w \in { WSkeByte(x, b), WSkneByte(x, b), WSkeReg(x, y), WSkneReg(x, y) } } :
          x \in Regs, y \in Regs, a \in Vals, b \in Vals }

\* V0 is set, then a jump adds it to an address inside or at the end of memory
JmpV0Programs ==
  { <<WMovByte(0, a), WJmpV0(addr)>> : a \in Vals, addr \in {WordAddr(2), MEMORY_SIZE - 1} }

\* a register is set and moved to the timer, then the timer is read back
TimerPrograms ==
  { <<WMovByte(x, a), WMovDt(x), WMovFromDt(y)>> : x \in Regs, y \in Regs, a \in Vals }

\* sprite heights: none, one row, one glyph, the largest
Heights == {0, 1, 5, 15}

\* a position is set and a sprite of the font is drawn there twice; in
\* between nothing happens, or the display is cleared, the index moves to
\* another sprite, or the position moves
DrawPrograms ==
  UNION { { <<WMovByte(0, a), WMovByte(1, b), WDrw(0, 1, n)>> \o mid \o <<WDrw(0, 1, n)>> :
              mid \in { <<>>, <<WCls>>, <<WMovI(GLYPH_SIZE)>>, <<WMovByte(0, (a + 1) % 256)>> } } :
          a \in Vals, b \in Vals, n \in Heights }
    \cup { <<WMovByte(1, b), WDrw(15, 1, n), WDrw(15, 1, n)>> : b \in Vals, n \in Heights }
    \cup { <<WMovI(MEMORY_SIZE - 1), WDrw(0, 0, n)>> : n \in Heights }
    \cup { <<WMovByte(0, a), WDrw(0, 1, n), WMovI(GLYPH_SIZE), WDrw(0, 1, n), WDrw(0, 1, n)>> :
             a \in Vals, n \in Heights }

\* the values of the decimal conversion: the operand bytes and 229
BcdVals == Vals \cup {9, 10, 99, 100, 229}

\* the index and a register are set, then the register is converted
BcdPrograms ==
  { <<WMovI(addr), WMovByte(x, v), WBcd(x)>> :
      addr \in {0, 768, MEMORY_SIZE - 3, MEMORY_SIZE - 2}, x \in Regs, v \in BcdVals }

\* the values of the glyph lookup: around the last digit and the last
\* product that fits a byte
FontVals == Vals \cup {15, 16, 51, 52}

\* a register is set, then the index is pointed at its glyph
FontPrograms == { <<WMovByte(x, v), WFont(x)>> : x \in Regs, v \in FontVals }

\* V0 is stored at the start, at the end and right after the font region
FontStorePrograms ==
  { <<WStr(0)>> }
    \cup { <<WMovI(addr), WMovByte(0, v), WStr(0)>> :
             addr \in {0, FONT_SIZE - 1, FONT_SIZE}, v \in Vals }

\* two moves and an addition
EndToEndProgram == <<WMovByte(0, 5), WMovByte(1, 3), WAlu(0, 1, 4)>>

\* a subroutine that calls itself
RecursionProgram == <<WCall(WordAddr(0))>>

\* a move, then a word no pattern of the table matches
UnmappedProgram == <<WMovByte(0, 5), 65535>>

Programs ==
  AluPrograms \cup IndexPrograms \cup RndPrograms \cup JmpPrograms
    \cup CallPrograms \cup StrLdPrograms
    \cup LogicPrograms \cup SkipPrograms \cup JmpV0Programs \cup TimerPrograms
    \cup DrawPrograms \cup BcdPrograms \cup FontPrograms \cup FontStorePrograms
    \cup {EndToEndProgram, RecursionProgram, UnmappedProgram}

(***************************************************************************)
(* The state machine: Init is Cpu::new on a program, each action is one    *)
(* call of Cpu::execute that takes one arm of the match.                   *)
(***************************************************************************)
\* the build profiles a program is run under: both when it holds a FONT
\* word, whose product is the one overflow that the profile decides; the
\* other overflows (push below address 0, RND with byte 255) end in a panic
\* in either build, so the other programs are run under one
Profiles(words) ==
  IF \E k \in 1..Len(words) : Decode(words[k]) = "FONT Vx" THEN BOOLEAN ELSE {TRUE}

Init ==
  \E words \in Programs :
    LET c == New(RomBytes(words))
    IN  /\ gpr = c.gpr
        /\ program_counter = c.program_counter
        /\ index = c.index
        /\ stack_pointer = c.stack_pointer
        /\ memory = c.memory
        /\ display = c.display
        /\ delay_timer = c.delay_timer
        /\ status = c.status
        /\ report = c.report
        /\ trace = <<>>
        /\ overflow_checks \in Profiles(words)
        /\ ticks = 0

Running == status = "running" /\ Len(trace) < MaxSteps

\* the fetch reads two bytes inside the memory
CanFetch == InBounds(program_counter, WORD_SIZE)

Opcode == FetchedOpcode(Self)

Fetched == fetch_instruction(Self)

Dispatch(mnemonic) == Running /\ CanFetch /\ Decode(Opcode) = mnemonic

\* the step ends in Cpu c; the trace gets the state the step started from
Commit(c, opcode) ==
  /\ gpr' = c.gpr
  /\ program_counter' = c.program_counter
  /\ index' = c.index
  /\ stack_pointer' = c.stack_pointer
  /\ memory' = c.memory
  /\ display' = c.display
  /\ delay_timer' = c.delay_timer
  /\ status' = c.status
  /\ report' = c.report
  /\ UNCHANGED <<overflow_checks, ticks>>
  /\ trace' = Append(trace,
                [p |-> program_counter, opcode |-> opcode, gpr |-> gpr,
                 index |-> index, sp |-> stack_pointer,
                 display |-> display, delay_timer |-> delay_timer,
                 changed |-> {a \in DOMAIN c.memory :
                               ByteAt(c.memory, a) # ByteAt(memory, a)}])

\* the word at the program counter reaches past the end of the memory
FetchFault == Running /\ ~CanFetch /\ Commit(Panic(Self), -1)

ExecuteJmp == Dispatch("JMP addr") /\ Commit(jmp_addr(Fetched, Opcode), Opcode)

ExecuteCall == Dispatch("CALL addr") /\ Commit(call_addr(Fetched, Opcode), Opcode)

ExecuteRet == Dispatch("RET") /\ Commit(ret_arm(Fetched, Opcode), Opcode)

ExecuteJmpV0 ==
  Dispatch("JMP V0, addr") /\ Commit(jmp_v0_addr(Fetched, Opcode), Opcode)

ExecuteMovVxVy == Dispatch("MOV Vx, Vy") /\ Commit(mov_vx_vy(Fetched, Opcode), Opcode)

ExecuteMovDtVx == Dispatch("MOV DT, Vx") /\ Commit(mov_dt_vx(Fetched, Opcode), Opcode)

ExecuteMovVxDt == Dispatch("MOV Vx, DT") /\ Commit(mov_vx_dt(Fetched, Opcode), Opcode)

ExecuteOrVxVy == Dispatch("OR Vx, Vy") /\ Commit(or_vx_vy(Fetched, Opcode), Opcode)

ExecuteAndVxVy == Dispatch("AND Vx, Vy") /\ Commit(and_vx_vy(Fetched, Opcode), Opcode)

ExecuteXorVxVy == Dispatch("XOR Vx, Vy") /\ Commit(xor_vx_vy(Fetched, Opcode), Opcode)

ExecuteSkeVxByte ==
  Dispatch("SKE Vx, byte") /\ Commit(ske_vx_byte(Fetched, Opcode), Opcode)

ExecuteSkeVxVy == Dispatch("SKE Vx, Vy") /\ Commit(ske_vx_vy(Fetched, Opcode), Opcode)

ExecuteSkneVxByte ==
  Dispatch("SKNE Vx, byte") /\ Commit(skne_vx_byte(Fetched, Opcode), Opcode)

ExecuteSkneVxVy ==
  Dispatch("SKNE Vx, Vy") /\ Commit(skne_vx_vy(Fetched, Opcode), Opcode)

ExecuteCls == Dispatch("CLS") /\ Commit(cls(Fetched, Opcode), Opcode)

ExecuteDrw ==
  Dispatch("DRW Vx, Vy, nibble") /\ Commit(drw_vx_vy_nibble(Fetched, Opcode), Opcode)

ExecuteBcdVx == Dispatch("BCD Vx") /\ Commit(bcd_vx(Fetched, Opcode), Opcode)

ExecuteFontVx ==
  Dispatch("FONT Vx") /\ Commit(font_vx(Fetched, Opcode, overflow_checks), Opcode)

\* the host's clock decays the timer, at its own pace, while the Cpu runs
Tick ==
  /\ status = "running"
  /\ ticks < MaxTicks
  /\ delay_timer > 0
  /\ delay_timer' = TimerTick(delay_timer)
  /\ ticks' = ticks + 1
  /\ UNCHANGED <<gpr, program_counter, index, stack_pointer, memory, display,
                 status, report, trace, overflow_checks>>

ExecuteMovVxByte ==
  Dispatch("MOV Vx, byte") /\ Commit(mov_vx_byte(Fetched, Opcode), Opcode)

ExecuteMovIAddr ==
  Dispatch("MOV I, addr") /\ Commit(mov_i_addr(Fetched, Opcode), Opcode)

ExecuteAddVxByte ==
  Dispatch("ADD Vx, byte") /\ Commit(add_vx_byte(Fetched, Opcode), Opcode)

ExecuteAddVxVy ==
  Dispatch("ADD Vx, Vy") /\ Commit(add_vx_vy(Fetched, Opcode), Opcode)

ExecuteAddIVx ==
  Dispatch("ADD I, Vx") /\ Commit(add_i_vx(Fetched, Opcode), Opcode)

ExecuteSubVxVy ==
  Dispatch("SUB Vx, Vy") /\ Commit(sub_vx_vy(Fetched, Opcode), Opcode)

ExecuteRsubVxVy ==
  Dispatch("RSUB Vx, Vy") /\ Commit(rsub_vx_vy(Fetched, Opcode), Opcode)

ExecuteShrVx == Dispatch("SHR Vx") /\ Commit(shr_vx(Fetched, Opcode), Opcode)

ExecuteShlVx == Dispatch("SHL Vx") /\ Commit(shl_vx(Fetched, Opcode), Opcode)

ExecuteRndVx ==
  /\ Dispatch("RND Vx, tribble")
  /\ \E drawn \in RndDraws(Opcode) : Commit(rnd_vx(Fetched, Opcode, drawn), Opcode)

ExecuteLdVxI == Dispatch("LD Vx, [I]") /\ Commit(ld_vx_i(Fetched, Opcode), Opcode)

ExecuteStrIVx == Dispatch("STR [I], Vx") /\ Commit(str_i_vx(Fetched, Opcode), Opcode)

ExecuteUnsupported == Dispatch("") /\ Commit(unsupported(Fetched, Opcode), Opcode)

Next ==
  \/ FetchFault
  \/ ExecuteJmp
  \/ ExecuteCall
  \/ ExecuteRet
  \/ ExecuteMovVxByte
  \/ ExecuteMovIAddr
  \/ ExecuteAddVxByte
  \/ ExecuteAddVxVy
  \/ ExecuteAddIVx
  \/ ExecuteSubVxVy
  \/ ExecuteRsubVxVy
  \/ ExecuteShrVx
  \/ ExecuteShlVx
  \/ ExecuteRndVx
  \/ ExecuteLdVxI
  \/ ExecuteStrIVx
  \/ ExecuteUnsupported
  \/ ExecuteJmpV0
  \/ ExecuteMovVxVy
  \/ ExecuteMovDtVx
  \/ ExecuteMovVxDt
  \/ ExecuteOrVxVy
  \/ ExecuteAndVxVy
  \/ ExecuteXorVxVy
  \/ ExecuteSkeVxByte
  \/ ExecuteSkeVxVy
  \/ ExecuteSkneVxByte
  \/ ExecuteSkneVxVy
  \/ ExecuteCls
  \/ ExecuteDrw
  \/ ExecuteBcdVx
  \/ ExecuteFontVx
  \/ Tick

Spec == Init /\ [][Next]_vars

\* the types of the state
TypeOK ==
  /\ gpr \in [Registers -> Byte]
  /\ DOMAIN memory \subseteq Addresses
  /\ \A a \in DOMAIN memory : memory[a] \in Byte
  /\ display \subseteq (0..(DISPLAY_WIDTH - 1)) \X (0..(DISPLAY_HEIGHT - 1))
  /\ delay_timer \in Byte
  /\ program_counter \in 0..65535
  /\ index \in 0..4095
  /\ stack_pointer \in 0..STACK_BASE
  /\ status \in {"running", "panicked", "exited"}
  /\ Len(trace) <= MaxSteps
  /\ ticks \in 0..MaxTicks

(***************************************************************************)
(* Properties.  Each is stated on the state a step ends in and the trace   *)
(* entry of that step, which holds the state the step started from.        *)
(***************************************************************************)
\* the entry of the step that ended in the current state
Last == trace[Len(trace)]

\* step k of the run fetched a word of this instruction
IsOp(k, mnemonic) == trace[k].opcode >= 0 /\ Decode(trace[k].opcode) = mnemonic

\* the current state is the end of a step that executed this instruction
Stepped(mnemonic) == Len(trace) > 0 /\ IsOp(Len(trace), mnemonic)

\* the operand registers of the last step
X == reg1(Last.opcode)
Y == reg2(Last.opcode)

\* C1: a step executing ADD Vx,Vy from Vx=a, Vy=b ends with Vx = (a+b) mod 256
C1_AddVxVyWraps ==
  Stepped("ADD Vx, Vy") =>
    /\ status = "running"
    /\ gpr[X] = (Last.gpr[X] + Last.gpr[Y]) % 256

\* C2: a step executing SUB Vx,Vy from Vx=a, Vy=b ends with Vx = (a-b) mod 256
C2_SubVxVyWraps ==
  Stepped("SUB Vx, Vy") =>
    /\ status = "running"
    /\ gpr[X] = (Last.gpr[X] - Last.gpr[Y] + 256) % 256

\* C3: a step executing RSUB Vx,Vy from Vx=a, Vy=b ends with Vx = (b-a) mod 256,
\* and with Vy unchanged when y differs from x
C3_RsubVxVyWraps ==
  Stepped("RSUB Vx, Vy") =>
    /\ status = "running"
    /\ gpr[X] = (Last.gpr[Y] - Last.gpr[X] + 256) % 256
    /\ (Y # X => gpr[Y] = Last.gpr[Y])

\* C3 happens: RSUB on distinct registers with Vx=1, Vy=0 borrows and ends with Vx=255
C3_Witness ==
  /\ Stepped("RSUB Vx, Vy")
  /\ X # Y
  /\ Last.gpr[X] = 1
  /\ Last.gpr[Y] = 0
  /\ gpr[X] = 255

\* C4: a step executing ADD Vx,kk from Vx=a ends with Vx = (a+kk) mod 256
C4_AddVxByteWraps ==
  Stepped("ADD Vx, byte") =>
    /\ status = "running"
    /\ gpr[X] = (Last.gpr[X] + byte(Last.opcode)) % 256

\* C5: a step executing ADD I,Vx from index=i, Vx=a ends with index = i + a,
\* wrapped to the 16 bits of the index register, and with Vx unchanged
C5_AddIVxAdds ==
  Stepped("ADD I, Vx") =>
    /\ status = "running"
    /\ index = (Last.index + Last.gpr[X]) % 65536
    /\ gpr[X] = Last.gpr[X]

\* C6: a step executing SHR Vx, x other than 15, from Vx=a ends with
\* VF = a & 1 and Vx = a >> 1
C6_ShrVxSetsFlag ==
  (Stepped("SHR Vx") /\ X # 15) =>
    /\ status = "running"
    /\ gpr[15] = Last.gpr[X] % 2
    /\ gpr[X] = Last.gpr[X] \div 2

\* C7: a step executing SHL Vx, x other than 15, from Vx=a ends with
\* VF = (a >> 7) & 1 and Vx = (a << 1) mod 256
C7_ShlVxSetsFlag ==
  (Stepped("SHL Vx") /\ X # 15) =>
    /\ status = "running"
    /\ gpr[15] = (Last.gpr[X] \div 128) % 2
    /\ gpr[X] = (Last.gpr[X] * 2) % 256

\* C8: for every kk in 0..255 a step executing RND Vx,kk completes without
\* failure and ends with Vx in 0..kk (so with Vx = 0 when kk = 0)
C8_RndVxInRange ==
  Stepped("RND Vx, tribble") =>
    /\ status = "running"
    /\ gpr[X] \in 0..byte(Last.opcode)

\* the two bytes of the return address the CALL of step i pushed
PushedWord(i) == {trace[i].sp - 2, trace[i].sp - 1}

\* step i executed a CALL, the last step a RET, both completed, and between
\* them no CALL or RET ran and the pushed return address was not changed
CallThenRet(i) ==
  /\ i < Len(trace)
  /\ IsOp(i, "CALL addr")
  /\ Stepped("RET")
  /\ status = "running"
  /\ \A k \in (i + 1)..(Len(trace) - 1) :
       /\ ~IsOp(k, "CALL addr")
       /\ ~IsOp(k, "RET")
       /\ trace[k].changed \cap PushedWord(i) = {}

\* C9: a CALL fetched at p followed by a RET, with no other CALL or RET and
\* no write to the stack between them, ends with the program counter at p+2
\* and the stack pointer at its value before the CALL
C9_CallRetReturns ==
  \A i \in 1..Len(trace) :
    CallThenRet(i) =>
      /\ program_counter = trace[i].p + 2
      /\ stack_pointer = trace[i].sp

\* C9 happens: a CALL, a step of the subroutine, then the RET that returns
C9_Witness ==
  \E i \in 1..Len(trace) :
    /\ CallThenRet(i)
    /\ Len(trace) > i + 1
    /\ trace[i].p = PROGRAM_CODE_BASE
    /\ program_counter = PROGRAM_CODE_BASE + 2
    /\ stack_pointer = STACK_BASE

\* the addresses STR [I],Vx of step i stored to
StoredBytes(i) == trace[i].index..(trace[i].index + reg1(trace[i].opcode))

\* step i executed STR [I],Vx, the last step LD Vx,[I] with the same x and
\* the same index, both completed, and the stored bytes were not changed
StrThenLd(i) ==
  /\ i < Len(trace)
  /\ IsOp(i, "STR [I], Vx")
  /\ Stepped("LD Vx, [I]")
  /\ status = "running"
  /\ X = reg1(trace[i].opcode)
  /\ Last.index = trace[i].index
  /\ \A k \in (i + 1)..(Len(trace) - 1) :
       trace[k].changed \cap StoredBytes(i) = {}

\* C10: STR [I],Vx, then steps that leave the index and the stored bytes as
\* they are, then LD Vx,[I] restores V0..Vx to their values at the STR; the
\* LD does not touch the registers above x
C10_StrLdRoundTrip ==
  \A i \in 1..Len(trace) :
    StrThenLd(i) =>
      /\ \A r \in 0..X : gpr[r] = trace[i].gpr[r]
      /\ \A r \in (X + 1)..15 : gpr[r] = Last.gpr[r]

\* C10 happens: V0=255, V1=127 are stored with x=1, both are overwritten
\* with 170 and VF with it, and the LD brings 255 and 127 back, VF staying
C10_Witness ==
  \E i \in 1..Len(trace) :
    /\ StrThenLd(i)
    /\ X = 1
    /\ trace[i].gpr[0] = 255 /\ trace[i].gpr[1] = 127
    /\ Last.gpr[0] = 170 /\ Last.gpr[1] = 170
    /\ gpr[0] = 255 /\ gpr[1] = 127

\* C11: a step executing BCD Vx from Vx=v, with the three bytes at index
\* inside the memory, writes the hundreds, tens and ones digits of v at
\* index, index+1 and index+2 and changes no other memory byte, no register
\* and not the index
C11_BcdWritesDigits ==
  (Stepped("BCD Vx") /\ InBounds(Last.index, 3)) =>
    /\ status = "running"
    /\ ByteAt(memory, Last.index) = Last.gpr[X] \div 100
    /\ ByteAt(memory, Last.index + 1) = (Last.gpr[X] \div 10) % 10
    /\ ByteAt(memory, Last.index + 2) = Last.gpr[X] % 10
    /\ Last.changed \subseteq Last.index..(Last.index + 2)
    /\ gpr = Last.gpr
    /\ index = Last.index

\* C11 happens: BCD of 229 at index 768 leaves the bytes 2, 2, 9 there
C11_Witness ==
  /\ Stepped("BCD Vx")
  /\ Last.gpr[X] = 229
  /\ Last.index = 768
  /\ ByteAt(memory, 768) = 2 /\ ByteAt(memory, 769) = 2 /\ ByteAt(memory, 770) = 9

\* C12: a step whose fetched word matches no entry of the table ends halted,
\* reporting that word and the address p it was fetched at; the step changes
\* no register, index, stack pointer, memory, display or timer value, and
\* no step executes after it
C12_UnsupportedHalts ==
  /\ Stepped("") =>
       /\ status = "exited"
       /\ report = <<Last.opcode, Last.p>>
       /\ gpr = Last.gpr
       /\ index = Last.index
       /\ stack_pointer = Last.sp
       /\ Last.changed = {}
       /\ display = Last.display
       /\ delay_timer = Last.delay_timer
       /\ ~ENABLED Next
  /\ \A k \in 1..(Len(trace) - 1) : ~IsOp(k, "")

\* C12 happens: the word 0xFFFF fetched at the second program word, after a
\* move has set V0, halts the run with the word and that address reported
C12_Witness ==
  /\ Stepped("")
  /\ gpr[0] = 5
  /\ status = "exited"
  /\ report = <<65535, WordAddr(1)>>

\* the addresses of the sprite the DRW of step i read
SpriteBytes(i) == trace[i].index..(trace[i].index + nibble(trace[i].opcode) - 1)

\* step i and the last step each executed a DRW and completed, with the same
\* values of Vx and Vy, the same n and index and the same sprite bytes, and
\* no CLS or DRW ran between them
DrawTwice(i) ==
  /\ i < Len(trace)
  /\ IsOp(i, "DRW Vx, Vy, nibble")
  /\ Stepped("DRW Vx, Vy, nibble")
  /\ status = "running"
  /\ trace[i].gpr[reg1(trace[i].opcode)] = Last.gpr[X]
  /\ trace[i].gpr[reg2(trace[i].opcode)] = Last.gpr[Y]
  /\ nibble(trace[i].opcode) = nibble(Last.opcode)
  /\ trace[i].index = Last.index
  /\ \A k \in i..(Len(trace) - 1) : trace[k].changed \cap SpriteBytes(i) = {}
  /\ \A k \in (i + 1)..(Len(trace) - 1) :
       ~IsOp(k, "DRW Vx, Vy, nibble") /\ ~IsOp(k, "CLS")

\* C13: the second of two equal DRW steps leaves the display as it was before
\* the first, and ends with VF = 1 whenever the first turned a pixel on
C13_DrawTwiceCancels ==
  \A i \in 1..Len(trace) :
    DrawTwice(i) =>
      /\ display = trace[i].display
      /\ (Last.display \ trace[i].display # {} => gpr[15] = 1)

\* C13 happens: on a display that already shows a glyph, another glyph is
\* drawn over it twice; the first draw turns pixels on and off, the second
\* restores the display and reports the collision
C13_Witness ==
  \E i \in 1..Len(trace) :
    /\ DrawTwice(i)
    /\ trace[i].display # {}
    /\ Last.display \ trace[i].display # {}
    /\ trace[i].display \ Last.display # {}
    /\ display = trace[i].display
    /\ gpr[15] = 1

\* the last step, fetched at p, completed with the program counter at p+4 if
\* skipped holds and at p+2 if not, and with every register as it was
SkipOutcome(skipped) ==
  /\ status = "running"
  /\ program_counter = Last.p + (IF skipped THEN 4 ELSE 2)
  /\ gpr = Last.gpr

\* C14: SKE Vx,kk and SKE Vx,Vy skip the next instruction exactly when the
\* operands are equal, SKNE Vx,kk and SKNE Vx,Vy exactly when they differ;
\* no register changes
C14_SkipsCompare ==
  /\ Stepped("SKE Vx, byte") => SkipOutcome(Last.gpr[X] = byte(Last.opcode))
  /\ Stepped("SKE Vx, Vy") => SkipOutcome(Last.gpr[X] = Last.gpr[Y])
  /\ Stepped("SKNE Vx, byte") => SkipOutcome(Last.gpr[X] # byte(Last.opcode))
  /\ Stepped("SKNE Vx, Vy") => SkipOutcome(Last.gpr[X] # Last.gpr[Y])

\* C14 happens: SKE on two registers that both hold 255 skips, to p+4
C14_Witness ==
  /\ Stepped("SKE Vx, Vy")
  /\ X # Y
  /\ Last.gpr[X] = 255 /\ Last.gpr[Y] = 255
  /\ program_counter = Last.p + 4

\* the instructions that set the program counter themselves
ControlFlow ==
  { "JMP addr", "JMP V0, addr", "CALL addr", "RET",
    "SKE Vx, byte", "SKE Vx, Vy", "SKNE Vx, byte", "SKNE Vx, Vy" }

\* the last step fetched a word of the table that is no jump, call, return
\* or skip, and completed
FellThrough ==
  /\ Len(trace) > 0
  /\ Last.opcode >= 0
  /\ Decode(Last.opcode) \notin ControlFlow \cup {""}
  /\ status = "running"

\* C15: a completed step that fetched at p an instruction other than a jump,
\* CALL, RET or skip ends with the program counter at p+2 and the stack
\* pointer unchanged
C15_FallsThrough ==
  FellThrough =>
    /\ program_counter = Last.p + 2
    /\ stack_pointer = Last.sp

\* C15 happens: a store inside a subroutine, with a return address on the
\* stack, goes on to the next word
C15_Witness ==
  /\ FellThrough
  /\ Decode(Last.opcode) = "STR [I], Vx"
  /\ Last.sp = STACK_BASE - WORD_SIZE
  /\ program_counter = Last.p + 2
  /\ stack_pointer = Last.sp

\* the run started from a Cpu constructed on the program MOV V0,0x05;
\* MOV V1,0x03; ADD V0,V1 and has made exactly steps steps, all completed
EndToEndRun(steps) ==
  /\ DOMAIN memory =
       (0..(FONT_SIZE - 1)) \cup (WordAddr(0)..(WordAddr(Len(EndToEndProgram)) - 1))
  /\ \A k \in 1..Len(EndToEndProgram) :
       read_u16_at(memory, WordAddr(k - 1)) = EndToEndProgram[k]
  /\ Len(trace) = steps
  /\ status = "running"

\* C16 as stated: after two steps of the end-to-end program V0 = 8
C16_TwoStepsGiveEight == EndToEndRun(2) => gpr[0] = 8

\* C16 amended: after two steps of the end-to-end program the two moves have
\* run and the addition has not: V0 = 5 and V1 = 3
C16_TwoStepsGiveOperands == EndToEndRun(2) => (gpr[0] = 5 /\ gpr[1] = 3)

\* C16 happens: the end-to-end program has made its two first steps
C16_Witness ==
  /\ EndToEndRun(2)
  /\ trace[1].opcode = WMovByte(0, 5)
  /\ trace[2].opcode = WMovByte(1, 3)
  /\ program_counter = WordAddr(2)

\* C17: for every value v of Vx a step executing FONT Vx completes and sets
\* the index to (v mod 16) * 5, the address of the glyph of the low nibble
\* of v, which lies in the font region
C17_FontSelectsGlyph ==
  Stepped("FONT Vx") =>
    /\ status = "running"
    /\ index = (Last.gpr[X] % 16) * 5
    /\ index \in 0..75

\* C18: the font region is immutable: in every reachable state, whatever
\* STR [I], Vx and BCD Vx have written, each byte of addresses 0..79 holds
\* the value of the font table loaded at construction
C18_FontImmutable ==
  \A a \in 0..(FONT_SIZE - 1) : ByteAt(memory, a) = FontTable[a + 1]

\* the addresses of the call stack
StackRegion == (STACK_BASE - STACK_SIZE)..(STACK_BASE - 1)

\* C19: a RET run with the stack pointer at the top of the stack region and
\* a CALL run with the stack region full each end the run in a failure
\* that is not the decode failure and change no memory; the stack pointer
\* never leaves the stack region
C19_StackFailuresReported ==
  /\ stack_pointer \in (STACK_BASE - STACK_SIZE)..STACK_BASE
  /\ (Stepped("RET") /\ Last.sp = STACK_BASE) =>
       /\ status \notin {"running", "exited"}
       /\ Last.changed = {}
  /\ (Stepped("CALL addr") /\ Last.sp = STACK_BASE - STACK_SIZE) =>
       /\ status \notin {"running", "exited"}
       /\ Last.changed = {}

\* the return addresses of the calls not yet returned from after the first
\* k steps, the most recent last
RECURSIVE CallStack(_)
CallStack(k) ==
  IF k = 0 THEN <<>>
  ELSE LET below == CallStack(k - 1)
       IN  IF IsOp(k, "CALL addr") THEN Append(below, trace[k].p + WORD_SIZE)
           ELSE IF IsOp(k, "RET") /\ Len(below) > 0
                THEN SubSeq(below, 1, Len(below) - 1)
                ELSE below

NumCalls == Cardinality({k \in 1..Len(trace) : IsOp(k, "CALL addr")})
NumRets == Cardinality({k \in 1..Len(trace) : IsOp(k, "RET")})

\* every step completed, only CALL steps changed bytes of the stack region,
\* and the nesting stayed within the capacity of the stack
Disciplined ==
  /\ status = "running"
  /\ \A k \in 1..Len(trace) :
       /\ IsOp(k, "CALL addr") \/ trace[k].changed \cap StackRegion = {}
       /\ Len(CallStack(k)) * WORD_SIZE <= STACK_SIZE

\* C20: after steps of which none but CALL wrote into the stack region and
\* whose nesting stayed within the stack capacity, the stack pointer is
\* its initial value minus 2 * (CALLs executed - RETs executed), and a RET
\* leaves the program counter at the return address of the most recent
\* CALL not yet returned from
C20_StackDiscipline ==
  Disciplined =>
    /\ stack_pointer = STACK_BASE - 2 * (NumCalls - NumRets)
    /\ Stepped("RET") =>
         LET before == CallStack(Len(trace) - 1)
         IN  program_counter = before[Len(before)]

\* two nested calls have both returned, innermost first
C20_Witness ==
  /\ Disciplined
  /\ Len(trace) = 4
  /\ IsOp(1, "CALL addr") /\ IsOp(2, "CALL addr")
  /\ IsOp(3, "RET") /\ IsOp(4, "RET")
  /\ CallStack(2) = <<WordAddr(1), WordAddr(3)>>
  /\ trace[4].p = WordAddr(3)
  /\ program_counter = WordAddr(1)
  /\ stack_pointer = STACK_BASE

====
